---- MODULE Spec2Model ----
(***************************************************************************)
(* Model of django-nonrel/ocl/sources/views.py: the HTTP view handlers of  *)
(* the Source and SourceVersion resources.                                 *)
(*                                                                         *)
(* State: the stored SourceVersion rows, the set of active Sources, and    *)
(* the request/response pair of the request handled last.  One action per  *)
(* handler; every handler is a pure operator from (stored state, request)  *)
(* to (response, stored state), and the action applies it.                 *)
(*                                                                         *)
(* There is one Source, "s1".  The parent of a version request resolves    *)
(* while that Source is active and no longer resolves once a DELETE on the *)
(* Source endpoint has removed it.                                         *)
(***************************************************************************)
EXTENDS Integers, Sequences, FiniteSets

VARIABLES sources, versions, last

vars == <<sources, versions, last>>

(***************************************************************************)
(* Bounds of the model.                                                    *)
(***************************************************************************)
MaxVersion == 2
NumConcepts == 4
NumMappings == 3
MaxLimit == 2

SourceIds == {"s1"}
VersionIds == 1..MaxVersion
ConceptIds == 1..NumConcepts
MappingIds == 1..NumMappings
Users == {"editor", "viewer", "anon"}

(***************************************************************************)
(* Python's None, for a parent reference, a query parameter or an object.  *)
(***************************************************************************)
None == "None"

NoObject ==
  [versioned_object |-> None, mnemonic |-> 0, released |-> FALSE,
   is_active |-> FALSE]

(***************************************************************************)
(* Python's truth value of a string-or-None: None and "" are false.        *)
(***************************************************************************)
Truthy(x) == x # None /\ x # ""

(***************************************************************************)
(* HTTP status codes (rest_framework.status).                              *)
(***************************************************************************)
HTTP_200_OK == 200
HTTP_201_CREATED == 201
HTTP_204_NO_CONTENT == 204
HTTP_400_BAD_REQUEST == 400
HTTP_403_FORBIDDEN == 403
HTTP_404_NOT_FOUND == 404
HTTP_405_METHOD_NOT_ALLOWED == 405
HTTP_500_INTERNAL_SERVER_ERROR == 500

(***************************************************************************)
(* Collaborator data: the ConceptVersion and Mapping tables.  They are not *)
(* written by any handler of this file, so they are fixed tables: row c is *)
(* inactive when 3 divides c and retired when c is 2, 6, 10, ...           *)
(***************************************************************************)
ConceptVersion_is_active(c) == c % 3 # 0
ConceptVersion_retired(c) == c % 4 = 2
Mapping_is_active(m) == m % 3 # 0
Mapping_retired(m) == m % 4 = 2

(***************************************************************************)
(* The fields of a SourceVersion that no handler of this file writes: its  *)
(* concept and mapping membership sets (every child except the one         *)
(* numbered like the version; none for None) and its parent version (the   *)
(* version numbered before it; 0: it has none).                            *)
(***************************************************************************)
SourceVersion_concepts(v) ==
  IF v.mnemonic = 0 THEN {} ELSE {c \in ConceptIds : c # v.mnemonic}

SourceVersion_mappings(v) ==
  IF v.mnemonic = 0 THEN {} ELSE {m \in MappingIds : m # v.mnemonic}

SourceVersion_parent_version(v) == v.mnemonic - 1

(***************************************************************************)
(* Permission classes (oclapi.permissions), object-level: the editor may   *)
(* view and edit, the viewer may only view, anon may do neither.           *)
(***************************************************************************)
CanView == "CanView"
CanEdit == "CanEdit"

has_object_permission(permission, user) ==
  IF permission = CanView THEN user \in {"editor", "viewer"}
  ELSE user = "editor"

(***************************************************************************)
(* SourceBaseView.queryset: the active Sources.                            *)
(***************************************************************************)
SourceBaseView_queryset(srcs) == srcs

(***************************************************************************)
(* SourceVersionBaseView.queryset: the active SourceVersion rows.          *)
(***************************************************************************)
SourceVersionBaseView_queryset(store) == {v \in store : v.is_active}

(***************************************************************************)
(* ResourceVersionMixin: the parent Source named in the path resolves to   *)
(* versioned_object, None when no active Source has that mnemonic; the     *)
(* view's queryset is narrowed to the versions of versioned_object.        *)
(***************************************************************************)
ResourceVersionMixin_versioned_object(srcs, source) ==
  IF source \in SourceBaseView_queryset(srcs) THEN source ELSE None

ResourceVersionMixin_get_queryset(store, versioned_object) ==
  {v \in SourceVersionBaseView_queryset(store) :
     versioned_object # None /\ v.versioned_object = versioned_object}

(***************************************************************************)
(* Faulty variant of initialize: only GET gets the view permission.        *)
(***************************************************************************)
initialize_get_only(method) ==
  IF method \in {"GET"} THEN CanView ELSE CanEdit

(***************************************************************************)
(* initialize of the two single-resource views: the permission class is    *)
(* chosen from the HTTP method.                                            *)
(***************************************************************************)
SourceRetrieveUpdateDestroyView_initialize(method) ==
  IF method \in {"GET", "HEAD"} THEN CanView ELSE CanEdit

SourceVersionRetrieveUpdateView_initialize(method) ==
  IF method \in {"GET", "HEAD"} THEN CanView ELSE CanEdit

(***************************************************************************)
(* get_object_or_404(queryset, **filter): the one matching row; Http404    *)
(* when there is none; MultipleObjectsReturned (an unhandled exception,    *)
(* 500) when there are several.                                            *)
(***************************************************************************)
get_object_or_404(matching) ==
  IF matching = {} THEN [status |-> HTTP_404_NOT_FOUND, obj |-> NoObject]
  ELSE IF Cardinality(matching) > 1
       THEN [status |-> HTTP_500_INTERNAL_SERVER_ERROR, obj |-> NoObject]
       ELSE [status |-> HTTP_200_OK, obj |-> CHOOSE v \in matching : TRUE]

(***************************************************************************)
(* check_object_permissions: PermissionDenied (403) when the permission    *)
(* class selected for the request refuses the user.                        *)
(***************************************************************************)
check_object_permissions(found, permission, user) ==
  IF found.status # HTTP_200_OK THEN found
  ELSE IF has_object_permission(permission, user) THEN found
       ELSE [status |-> HTTP_403_FORBIDDEN, obj |-> NoObject]

(***************************************************************************)
(* The view object ("self") of a request to a SourceVersion endpoint,      *)
(* after initialize: the permission class, the "latest" flag, the resolved *)
(* parent, and the version mnemonic and user of the request.               *)
(***************************************************************************)
SourceVersionView_self(srcs, request) ==
  [permission |-> SourceVersionRetrieveUpdateView_initialize(request.method),
   is_latest |-> request.is_latest,
   versioned_object |-> ResourceVersionMixin_versioned_object(srcs, request.source),
   version |-> request.version,
   user |-> request.user]

(***************************************************************************)
(* Faulty variants of get_object: the "latest" lookup without its          *)
(* released filter; the "latest" lookup without its permission check.      *)
(***************************************************************************)
get_object_latest_unfiltered(store, self) ==
  LET queryset == ResourceVersionMixin_get_queryset(store, self.versioned_object) IN
  IF self.is_latest
  THEN check_object_permissions(
         get_object_or_404(queryset), self.permission, self.user)
  ELSE check_object_permissions(
         get_object_or_404({v \in queryset : v.mnemonic = self.version}),
         self.permission, self.user)

get_object_latest_unchecked(store, self) ==
  LET queryset == ResourceVersionMixin_get_queryset(store, self.versioned_object) IN
  IF self.is_latest
  THEN get_object_or_404({v \in queryset : v.released = TRUE})
  ELSE check_object_permissions(
         get_object_or_404({v \in queryset : v.mnemonic = self.version}),
         self.permission, self.user)

(***************************************************************************)
(* SourceVersionRetrieveUpdateView.get_object.  In the "latest" mode the   *)
(* object is the released row of the queryset; otherwise the generic       *)
(* lookup by mnemonic.  Both end with the object-level permission check.   *)
(* The result is [status, obj]: status 200 and the object, or the status   *)
(* of the exception raised and no object.                                  *)
(***************************************************************************)
SourceVersionRetrieveUpdateView_get_object(store, self) ==
  LET queryset == ResourceVersionMixin_get_queryset(store, self.versioned_object) IN
  IF self.is_latest
  THEN check_object_permissions(
         get_object_or_404({v \in queryset : v.released = TRUE}),
         self.permission, self.user)
  ELSE check_object_permissions(
         get_object_or_404({v \in queryset : v.mnemonic = self.version}),
         self.permission, self.user)

(***************************************************************************)
(* The storage layer behind serializer.save (sources.models).              *)
(*                                                                         *)
(* Releasing a version un-releases the other versions of the same Source:  *)
(* at most one version of a Source is the released one.                    *)
(***************************************************************************)
Unrelease(store, versioned_object, mnemonic) ==
  {IF v.versioned_object = versioned_object /\ v.mnemonic # mnemonic
   THEN [v EXCEPT !.released = FALSE] ELSE v : v \in store}

(***************************************************************************)
(* persist_new: a new row linked to versioned_object, refused with an      *)
(* error when that Source already has a version with the mnemonic.         *)
(* The result is [store, obj, errors].                                     *)
(***************************************************************************)
SourceVersion_persist_new(store, data, versioned_object) ==
  LET obj == [versioned_object |-> versioned_object,
              mnemonic |-> data.id,
              released |-> data.released,
              is_active |-> TRUE]
      taken == \E v \in store : /\ v.versioned_object = versioned_object
                                /\ v.mnemonic = data.id
  IN IF taken
     THEN [store |-> store, obj |-> NoObject, errors |-> TRUE]
     ELSE [store |-> (IF data.released
                      THEN Unrelease(store, versioned_object, data.id)
                      ELSE store) \cup {obj},
           obj |-> obj, errors |-> FALSE]

(***************************************************************************)
(* persist_changes: the row of obj rewritten with the fields the partial   *)
(* payload carries (released only when data.has_released).                 *)
(***************************************************************************)
SourceVersion_persist_changes(store, obj, data, versioned_object) ==
  LET new == IF data.has_released
             THEN [obj EXCEPT !.released = data.released] ELSE obj
      rest == store \ {obj}
  IN [store |-> (IF new.released
                 THEN Unrelease(rest, versioned_object, obj.mnemonic)
                 ELSE rest) \cup {new},
      obj |-> new, errors |-> FALSE]

(***************************************************************************)
(* Faulty variants of create: without the guard on the parent; without the *)
(* second is_valid check, after save.                                      *)
(***************************************************************************)
create_without_parent_guard(store, self, data) ==
  IF data.valid
  THEN LET saved == SourceVersion_persist_new(store, data, self.versioned_object)
       IN IF ~saved.errors
          THEN [status |-> HTTP_201_CREATED, store |-> saved.store,
                obj |-> saved.obj]
          ELSE [status |-> HTTP_400_BAD_REQUEST, store |-> saved.store,
                obj |-> NoObject]
  ELSE [status |-> HTTP_400_BAD_REQUEST, store |-> store, obj |-> NoObject]

create_ignoring_save_errors(store, self, data) ==
  IF ~Truthy(self.versioned_object)
  THEN [status |-> HTTP_405_METHOD_NOT_ALLOWED, store |-> store, obj |-> NoObject]
  ELSE IF data.valid
       THEN LET saved == SourceVersion_persist_new(store, data, self.versioned_object)
            IN [status |-> HTTP_201_CREATED, store |-> saved.store,
                obj |-> saved.obj]
       ELSE [status |-> HTTP_400_BAD_REQUEST, store |-> store, obj |-> NoObject]

(***************************************************************************)
(* SourceVersionListView.create (POST).  data.valid is the outcome of the  *)
(* create serializer's field validation of the payload.                    *)
(* The result is [status, store, obj].                                     *)
(***************************************************************************)
SourceVersionListView_create(store, self, data) ==
  IF ~Truthy(self.versioned_object)
  THEN [status |-> HTTP_405_METHOD_NOT_ALLOWED, store |-> store, obj |-> NoObject]
  ELSE IF data.valid
       THEN LET saved == SourceVersion_persist_new(store, data, self.versioned_object)
            IN IF ~saved.errors
               THEN [status |-> HTTP_201_CREATED, store |-> saved.store,
                     obj |-> saved.obj]
               ELSE [status |-> HTTP_400_BAD_REQUEST, store |-> saved.store,
                     obj |-> NoObject]
       ELSE [status |-> HTTP_400_BAD_REQUEST, store |-> store, obj |-> NoObject]

(***************************************************************************)
(* update, line 173: the keyword arguments of serializer.save.             *)
(* update_save_kwargs_without_parent is its faulty variant.                *)
(***************************************************************************)
update_save_kwargs_without_parent(self) ==
  [force_update |-> TRUE, versioned_object |-> None]

update_save_kwargs(self) ==
  [force_update |-> TRUE, versioned_object |-> self.versioned_object]

(***************************************************************************)
(* SourceVersionRetrieveUpdateView.update (PUT and PATCH, always partial). *)
(***************************************************************************)
SourceVersionRetrieveUpdateView_update(store, self, data) ==
  IF ~Truthy(self.versioned_object)
  THEN [status |-> HTTP_405_METHOD_NOT_ALLOWED, store |-> store, obj |-> NoObject]
  ELSE LET found == SourceVersionRetrieveUpdateView_get_object(store, self) IN
       IF found.status # HTTP_200_OK
       THEN [status |-> found.status, store |-> store, obj |-> NoObject]
       ELSE IF data.valid
            THEN LET save_kwargs == update_save_kwargs(self)
                     saved == SourceVersion_persist_changes(
                                store, found.obj, data,
                                save_kwargs.versioned_object)
                 IN IF ~saved.errors
                    THEN [status |-> HTTP_200_OK, store |-> saved.store,
                          obj |-> saved.obj]
                    ELSE [status |-> HTTP_400_BAD_REQUEST, store |-> saved.store,
                          obj |-> found.obj]
            ELSE [status |-> HTTP_400_BAD_REQUEST, store |-> store,
                  obj |-> found.obj]

(***************************************************************************)
(* The generic deletion (DestroyAPIView.destroy): the row is deleted, or,  *)
(* where the model's delete only deactivates, kept with is_active false.   *)
(***************************************************************************)
DestroyAPIView_destroy(store, obj, soft) ==
  IF soft THEN (store \ {obj}) \cup {[obj EXCEPT !.is_active = FALSE]}
  ELSE store \ {obj}

(***************************************************************************)
(* Faulty variant of destroy: without the guard on released.               *)
(***************************************************************************)
destroy_without_released_guard(store, self, soft) ==
  LET found == SourceVersionRetrieveUpdateView_get_object(store, self) IN
  IF found.status # HTTP_200_OK
  THEN [status |-> found.status, store |-> store, obj |-> NoObject]
  ELSE [status |-> HTTP_204_NO_CONTENT,
        store |-> DestroyAPIView_destroy(store, found.obj, soft),
        obj |-> found.obj]

(***************************************************************************)
(* SourceVersionRetrieveUpdateDestroyView.destroy (DELETE).                *)
(***************************************************************************)
SourceVersionRetrieveUpdateDestroyView_destroy(store, self, soft) ==
  LET found == SourceVersionRetrieveUpdateView_get_object(store, self) IN
  IF found.status # HTTP_200_OK
  THEN [status |-> found.status, store |-> store, obj |-> NoObject]
  ELSE IF found.obj.released
       THEN [status |-> HTTP_400_BAD_REQUEST, store |-> store, obj |-> found.obj]
       ELSE [status |-> HTTP_204_NO_CONTENT,
             store |-> DestroyAPIView_destroy(store, found.obj, soft),
             obj |-> found.obj]

(***************************************************************************)
(* RetrieveAPIView.retrieve on a SourceVersion (GET and HEAD).             *)
(***************************************************************************)
SourceVersionRetrieveUpdateView_retrieve(store, self) ==
  LET found == SourceVersionRetrieveUpdateView_get_object(store, self) IN
  [status |-> found.status, store |-> store, obj |-> found.obj]

(***************************************************************************)
(* The generic get_object of the Source endpoint: lookup by mnemonic among *)
(* the active Sources, then the object-level permission check.             *)
(***************************************************************************)
SourceRetrieveUpdateDestroyView_self(request) ==
  [permission |-> SourceRetrieveUpdateDestroyView_initialize(request.method),
   source |-> request.source,
   user |-> request.user]

SourceRetrieveUpdateDestroyView_get_object(srcs, self) ==
  IF self.source \notin SourceBaseView_queryset(srcs)
  THEN [status |-> HTTP_404_NOT_FOUND, obj |-> None]
  ELSE IF ~has_object_permission(self.permission, self.user)
       THEN [status |-> HTTP_403_FORBIDDEN, obj |-> None]
       ELSE [status |-> HTTP_200_OK, obj |-> self.source]

(***************************************************************************)
(* SourceVersion.get_latest_version_of: the version of the Source that is  *)
(* marked released, None (NoObject) when it has none.                      *)
(***************************************************************************)
SourceVersion_get_latest_version_of(store, source) ==
  LET marked == {v \in store : /\ v.versioned_object = source
                               /\ v.is_active
                               /\ v.released}
  IN IF marked = {} THEN NoObject ELSE CHOOSE v \in marked : TRUE

(***************************************************************************)
(* A queryset of child rows is read in the order of their ids; q[0:limit]  *)
(* keeps its first int(limit) rows.                                        *)
(***************************************************************************)
RECURSIVE Ordered(_)
Ordered(S) ==
  IF S = {} THEN <<>>
  ELSE LET m == CHOOSE x \in S : \A y \in S : x <= y
       IN <<m>> \o Ordered(S \ {m})

Slice(q, n) == SubSeq(q, 1, IF n < Len(q) THEN n ELSE Len(q))

(***************************************************************************)
(* The limit parameter arrives as a decimal string: present, it is a       *)
(* non-empty string and so true for "if limit:" (even "0"); absent, it is  *)
(* the default 0.  [given, value] is the string of value, or the default.  *)
(***************************************************************************)
NoLimit == [given |-> FALSE, value |-> 0]

(***************************************************************************)
(* retrieve, lines 63-72 and 74-83: the nested concept and mapping rows.   *)
(***************************************************************************)
retrieve_concepts(source_version, include_retired, limit) ==
  LET source_version_concepts == SourceVersion_concepts(source_version)
      active == {c \in ConceptIds : ConceptVersion_is_active(c)}
      kept == IF ~Truthy(include_retired)
              THEN {c \in active : ~ConceptVersion_retired(c)}
              ELSE active
      queryset == Ordered({c \in kept : c \in source_version_concepts})
  IN IF limit.given THEN Slice(queryset, limit.value) ELSE queryset

retrieve_mappings(source_version, include_retired, limit) ==
  LET all_children == SourceVersion_mappings(source_version)
      active == {m \in MappingIds : Mapping_is_active(m)}
      kept == IF ~Truthy(include_retired)
              THEN {m \in active : ~Mapping_retired(m)}
              ELSE active
      queryset == Ordered({m \in kept : m \in all_children})
  IN IF limit.given THEN Slice(queryset, limit.value) ELSE queryset

(***************************************************************************)
(* Faulty variant of retrieve_keys: either flag adds both keys.            *)
(***************************************************************************)
retrieve_keys_either_flag(include_concepts, include_mappings) ==
  {"source"}
    \cup (IF Truthy(include_concepts) \/ Truthy(include_mappings)
          THEN {"concepts", "mappings"} ELSE {})

(***************************************************************************)
(* The keys retrieve adds to the serialized Source (lines 63, 72, 74, 83). *)
(***************************************************************************)
retrieve_keys(include_concepts, include_mappings) ==
  {"source"}
    \cup (IF Truthy(include_concepts) THEN {"concepts"} ELSE {})
    \cup (IF Truthy(include_mappings) THEN {"mappings"} ELSE {})

(***************************************************************************)
(* SourceRetrieveUpdateDestroyView.retrieve (GET and HEAD).  params holds  *)
(* the query parameters, None for one the request does not carry.  With an *)
(* inclusion flag and no latest version, source_version is None and its    *)
(* attribute access raises (500).                                          *)
(* The result is [status, keys, concepts, mappings].                       *)
(***************************************************************************)
SourceRetrieveUpdateDestroyView_retrieve(store, srcs, self, params) ==
  LET found == SourceRetrieveUpdateDestroyView_get_object(srcs, self)
      include_concepts == params.includeConcepts
      include_mappings == params.includeMappings
      nested == Truthy(include_concepts) \/ Truthy(include_mappings)
      source_version == IF nested
                        THEN SourceVersion_get_latest_version_of(store, found.obj)
                        ELSE NoObject
      limit == IF nested THEN params.limit ELSE NoLimit
      include_retired == IF nested THEN params.includeRetired ELSE None
      failed(code) == [status |-> code, keys |-> {},
                       concepts |-> <<>>, mappings |-> <<>>]
  IN IF found.status # HTTP_200_OK THEN failed(found.status)
     ELSE IF nested /\ source_version = NoObject
          THEN failed(HTTP_500_INTERNAL_SERVER_ERROR)
          ELSE [status |-> HTTP_200_OK,
                keys |-> retrieve_keys(include_concepts, include_mappings),
                concepts |-> IF Truthy(include_concepts)
                             THEN retrieve_concepts(source_version,
                                                    include_retired, limit)
                             ELSE <<>>,
                mappings |-> IF Truthy(include_mappings)
                             THEN retrieve_mappings(source_version,
                                                    include_retired, limit)
                             ELSE <<>>]

(***************************************************************************)
(* The Source endpoint's PUT and DELETE, inherited from the collaborator   *)
(* mixins: after get_object, PUT rewrites attributes of the Source that    *)
(* this model does not hold, DELETE takes the Source out of the active     *)
(* Sources.  The result is [status, sources] and the response's body.      *)
(***************************************************************************)
SourceRetrieveUpdateDestroyView_update(srcs, self) ==
  LET found == SourceRetrieveUpdateDestroyView_get_object(srcs, self) IN
  [status |-> found.status, sources |-> srcs,
   keys |-> IF found.status = HTTP_200_OK THEN {"source"} ELSE {},
   concepts |-> <<>>, mappings |-> <<>>]

SourceRetrieveUpdateDestroyView_destroy(srcs, self) ==
  LET found == SourceRetrieveUpdateDestroyView_get_object(srcs, self) IN
  IF found.status # HTTP_200_OK
  THEN [status |-> found.status, sources |-> srcs,
        keys |-> {}, concepts |-> <<>>, mappings |-> <<>>]
  ELSE [status |-> HTTP_204_NO_CONTENT, sources |-> srcs \ {found.obj},
        keys |-> {}, concepts |-> <<>>, mappings |-> <<>>]

(***************************************************************************)
(* ListWithHeadersMixin.list: the members of the response are the rows of  *)
(* the view's queryset (the request carries no search parameter).          *)
(***************************************************************************)
ListWithHeadersMixin_list(queryset) == queryset

(***************************************************************************)
(* Faulty variant of SourceVersionListView.get: the verbose listing reads  *)
(* the versions of the parent without the active-record filter.            *)
(***************************************************************************)
get_verbose_unfiltered(store, self, verbose) ==
  [serializer |-> IF verbose THEN "SourceVersionDetailSerializer"
                  ELSE "SourceVersionListSerializer",
   members |-> IF verbose
               THEN {v \in store : v.versioned_object = self.versioned_object}
               ELSE ResourceVersionMixin_get_queryset(store, self.versioned_object)]

(***************************************************************************)
(* The list endpoints (GET): the verbose flag picks the serializer, list() *)
(* returns the view's queryset.  The result is [serializer, members].      *)
(***************************************************************************)
SourceListView_get(srcs, verbose) ==
  [serializer |-> IF verbose THEN "SourceDetailSerializer"
                  ELSE "SourceListSerializer",
   members |-> ListWithHeadersMixin_list(SourceBaseView_queryset(srcs))]

SourceVersionListView_get(store, self, verbose) ==
  [serializer |-> IF verbose THEN "SourceVersionDetailSerializer"
                  ELSE "SourceVersionListSerializer",
   members |-> ListWithHeadersMixin_list(
                 ResourceVersionMixin_get_queryset(store, self.versioned_object))]

SourceVersionChildListView_get_queryset(store, resource_version) ==
  {v \in store : /\ v.versioned_object = resource_version.versioned_object
                 /\ SourceVersion_parent_version(v) = resource_version.mnemonic
                 /\ v.is_active = TRUE}

SourceVersionChildListView_get(store, resource_version, verbose) ==
  [serializer |-> IF verbose THEN "SourceVersionDetailSerializer"
                  ELSE "SourceVersionListSerializer",
   members |-> ListWithHeadersMixin_list(
                 SourceVersionChildListView_get_queryset(store, resource_version))]

(***************************************************************************)
(* The view object of a request to the version collection of a Source.     *)
(***************************************************************************)
SourceVersionListView_self(srcs, source) ==
  [versioned_object |-> ResourceVersionMixin_versioned_object(srcs, source)]

(***************************************************************************)
(* ResourceAttributeChildMixin: the version named in the path, NoObject    *)
(* when the Source has no active version with that mnemonic.               *)
(***************************************************************************)
ResourceAttributeChildMixin_resource_version(store, versioned_object, version) ==
  LET named == {v \in ResourceVersionMixin_get_queryset(store, versioned_object) :
                  v.mnemonic = version}
  IN IF named = {} THEN NoObject ELSE CHOOSE v \in named : TRUE

(***************************************************************************)
(* Requests and payloads.                                                  *)
(***************************************************************************)
NoData == [valid |-> FALSE, id |-> 0, has_released |-> FALSE, released |-> FALSE]

NoParams ==
  [includeConcepts |-> None, includeMappings |-> None,
   limit |-> NoLimit, includeRetired |-> None]

\* A request to a single version: by mnemonic, or (version 0) the latest.
VersionRequests(methods) ==
  {r \in [method : methods, user : Users, source : SourceIds,
          is_latest : BOOLEAN, version : 0..MaxVersion] :
     r.is_latest <=> r.version = 0}

SourceRequests(methods) == [method : methods, user : Users, source : SourceIds]

\* The payload of a POST: the mnemonic, released (False when left out).
CreatePayloads ==
  {d \in [valid : BOOLEAN, id : VersionIds,
          has_released : BOOLEAN, released : BOOLEAN] :
     d.has_released = d.released}

\* The payload of a partial update: released, or nothing.
UpdatePayloads ==
  {d \in [valid : BOOLEAN, id : {0},
          has_released : BOOLEAN, released : BOOLEAN] :
     d.released => d.has_released}

\* The query parameters includeConcepts, includeMappings, limit and
\* includeRetired: QUERY_PARAMS.get returns the string, or the default.
FlagValues == {None, "true", "false"}

LimitValues == {NoLimit} \cup {[given |-> TRUE, value |-> n] : n \in 0..MaxLimit}

AllParams ==
  [includeConcepts : FlagValues, includeMappings : FlagValues,
   limit : LimitValues, includeRetired : FlagValues]

(***************************************************************************)
(* last: the request handled last and its response.                        *)
(***************************************************************************)
Blank ==
  [view |-> "", handler |-> "", method |-> "", user |-> "", source |-> "",
   is_latest |-> FALSE, version |-> 0, permission |-> "",
   versioned_object |-> None, data |-> NoData, status |-> 0, obj |-> NoObject,
   params |-> NoParams, keys |-> {}, concepts |-> <<>>, mappings |-> <<>>,
   verbose |-> FALSE, serializer |-> "", members |-> {}]

VersionLast(handler, request, self, data, response) ==
  [view |-> "SourceVersionRetrieveUpdateDestroyView", handler |-> handler,
   method |-> request.method, user |-> request.user, source |-> request.source,
   is_latest |-> request.is_latest, version |-> request.version,
   permission |-> self.permission, versioned_object |-> self.versioned_object,
   data |-> data, status |-> response.status, obj |-> response.obj,
   params |-> NoParams, keys |-> {}, concepts |-> <<>>, mappings |-> <<>>,
   verbose |-> FALSE, serializer |-> "", members |-> {}]

CreateLast(source, self, data, response) ==
  [view |-> "SourceVersionListView", handler |-> "create",
   method |-> "POST", user |-> "", source |-> source,
   is_latest |-> FALSE, version |-> 0,
   permission |-> "", versioned_object |-> self.versioned_object,
   data |-> data, status |-> response.status, obj |-> response.obj,
   params |-> NoParams, keys |-> {}, concepts |-> <<>>, mappings |-> <<>>,
   verbose |-> FALSE, serializer |-> "", members |-> {}]

SourceLast(handler, request, self, params, response) ==
  [view |-> "SourceRetrieveUpdateDestroyView", handler |-> handler,
   method |-> request.method, user |-> request.user, source |-> request.source,
   is_latest |-> FALSE, version |-> 0,
   permission |-> self.permission, versioned_object |-> None,
   data |-> NoData, status |-> response.status, obj |-> NoObject,
   params |-> params, keys |-> response.keys,
   concepts |-> response.concepts, mappings |-> response.mappings,
   verbose |-> FALSE, serializer |-> "", members |-> {}]

ListLast(view, source, version, verbose, response) ==
  [view |-> view, handler |-> "get",
   method |-> "GET", user |-> "", source |-> source,
   is_latest |-> FALSE, version |-> version,
   permission |-> "", versioned_object |-> None,
   data |-> NoData, status |-> HTTP_200_OK, obj |-> NoObject,
   params |-> NoParams, keys |-> {}, concepts |-> <<>>, mappings |-> <<>>,
   verbose |-> verbose, serializer |-> response.serializer,
   members |-> response.members]

\* A handler's result, evaluated once.
One(x) == {x}

(***************************************************************************)
(* Initially every Source is active and has no version.                    *)
(***************************************************************************)
Init ==
  /\ sources = SourceIds
  /\ versions = {}
  /\ last = Blank

(***************************************************************************)
(* One action per handler.                                                 *)
(***************************************************************************)
VersionCreate ==
  \E source \in SourceIds, data \in CreatePayloads :
  \E self \in One(SourceVersionListView_self(sources, source)) :
  \E response \in One(SourceVersionListView_create(versions, self, data)) :
    /\ versions' = response.store
    /\ last' = CreateLast(source, self, data, response)
    /\ UNCHANGED sources

VersionUpdate ==
  \E request \in VersionRequests({"PUT", "PATCH"}), data \in UpdatePayloads :
  \E self \in One(SourceVersionView_self(sources, request)) :
  \E response \in One(SourceVersionRetrieveUpdateView_update(versions, self, data)) :
    /\ versions' = response.store
    /\ last' = VersionLast("update", request, self, data, response)
    /\ UNCHANGED sources

VersionDestroy ==
  \E request \in VersionRequests({"DELETE"}), soft \in BOOLEAN :
  \E self \in One(SourceVersionView_self(sources, request)) :
  \E response \in One(SourceVersionRetrieveUpdateDestroyView_destroy(versions, self, soft)) :
    /\ versions' = response.store
    /\ last' = VersionLast("destroy", request, self, NoData, response)
    /\ UNCHANGED sources

VersionRetrieve ==
  \E request \in VersionRequests({"GET", "HEAD"}) :
  \E self \in One(SourceVersionView_self(sources, request)) :
  \E response \in One(SourceVersionRetrieveUpdateView_retrieve(versions, self)) :
    /\ versions' = response.store
    /\ last' = VersionLast("retrieve", request, self, NoData, response)
    /\ UNCHANGED sources

SourceRetrieve(M, P) ==
  \E request \in SourceRequests(M), params \in P :
  \E self \in One(SourceRetrieveUpdateDestroyView_self(request)) :
  \E response \in One(SourceRetrieveUpdateDestroyView_retrieve(versions, sources, self, params)) :
    /\ last' = SourceLast("retrieve", request, self, params, response)
    /\ UNCHANGED <<sources, versions>>

SourceUpdate ==
  \E request \in SourceRequests({"PUT", "PATCH"}) :
  \E self \in One(SourceRetrieveUpdateDestroyView_self(request)) :
  \E response \in One(SourceRetrieveUpdateDestroyView_update(sources, self)) :
    /\ sources' = response.sources
    /\ last' = SourceLast("update", request, self, NoParams, response)
    /\ UNCHANGED versions

SourceDestroy ==
  \E request \in SourceRequests({"DELETE"}) :
  \E self \in One(SourceRetrieveUpdateDestroyView_self(request)) :
  \E response \in One(SourceRetrieveUpdateDestroyView_destroy(sources, self)) :
    /\ sources' = response.sources
    /\ last' = SourceLast("destroy", request, self, NoParams, response)
    /\ UNCHANGED versions

SourceList ==
  \E verbose \in BOOLEAN :
  \E response \in One(SourceListView_get(sources, verbose)) :
    /\ last' = ListLast("SourceListView", "", 0, verbose, response)
    /\ UNCHANGED <<sources, versions>>

VersionList ==
  \E source \in SourceIds, verbose \in BOOLEAN :
  \E self \in One(SourceVersionListView_self(sources, source)) :
  \E response \in One(SourceVersionListView_get(versions, self, verbose)) :
    /\ last' = ListLast("SourceVersionListView", source, 0, verbose, response)
    /\ UNCHANGED <<sources, versions>>

VersionChildList ==
  \E source \in SourceIds, version \in VersionIds, verbose \in BOOLEAN :
  \E self \in One(SourceVersionListView_self(sources, source)) :
  \E resource_version \in One(ResourceAttributeChildMixin_resource_version(versions, self.versioned_object, version)) :
  \E response \in One(SourceVersionChildListView_get(versions, resource_version, verbose)) :
    /\ resource_version # NoObject
    /\ last' = ListLast("SourceVersionChildListView", source, version, verbose, response)
    /\ UNCHANGED <<sources, versions>>

Next ==
  \/ VersionCreate
  \/ VersionUpdate
  \/ VersionDestroy
  \/ VersionRetrieve
  \/ SourceRetrieve({"GET", "HEAD"}, {NoParams})
  \/ SourceUpdate
  \/ SourceDestroy
  \/ SourceList
  \/ VersionList
  \/ VersionChildList

Spec == Init /\ [][Next]_vars

(***************************************************************************)
(* The Source endpoint under every combination of query parameters, over   *)
(* the stores that version creation reaches: active rows, one row per      *)
(* mnemonic, at most one released row per Source.                          *)
(***************************************************************************)
AllRows ==
  [versioned_object : SourceIds, mnemonic : VersionIds,
   released : BOOLEAN, is_active : {TRUE}]

CreatedStores ==
  {store \in SUBSET AllRows :
     \A v, w \in store :
       v.versioned_object = w.versioned_object
         => /\ v.mnemonic = w.mnemonic => v = w
            /\ v.released /\ w.released => v = w}

InitSource ==
  /\ sources = SourceIds
  /\ versions \in CreatedStores
  /\ last = Blank

NextSource == SourceRetrieve({"GET"}, AllParams)

SpecSource == InitSource /\ [][NextSource]_vars

(***************************************************************************)
(* Properties.                                                             *)
(***************************************************************************)
VersionView == "SourceVersionRetrieveUpdateDestroyView"
SourceView == "SourceRetrieveUpdateDestroyView"

Keys(store) == {<<v.versioned_object, v.mnemonic>> : v \in store}

Released(queryset) == {v \in queryset : v.released}

\* The request recorded in r reached get_object: update returns before it
\* when the parent does not resolve.
ReachedGetObject(r) ==
  /\ r.view = VersionView
  /\ r.handler = "update" => r.versioned_object # None

\* C1: a DELETE of a released version returns 400 and leaves the stored
\* state as it was; a DELETE of a version that is not released is not
\* refused: the generic deletion answers 204 and the version is no longer
\* among the active versions.
C1_DestroyRefusedWhileReleased ==
  [][(last'.view = VersionView /\ last'.handler = "destroy"
        /\ last'.obj # NoObject)
      => /\ last'.obj \in versions
         /\ IF last'.obj.released
            THEN /\ last'.status = HTTP_400_BAD_REQUEST
                 /\ versions' = versions
                 /\ sources' = sources
            ELSE /\ last'.status = HTTP_204_NO_CONTENT
                 /\ last'.obj \notin SourceVersionBaseView_queryset(versions')
                 /\ Keys(versions') \subseteq Keys(versions)]_vars

C1_Witness ==
  /\ last.view = VersionView
  /\ last.handler = "destroy"
  /\ last.obj.released
  /\ last.status = HTTP_400_BAD_REQUEST
  /\ last.obj \in versions

\* C2: a POST to the version collection of a Source that does not resolve
\* returns 405 whatever the payload, and the stored versions are the same
\* before and after.
C2_CreateWithoutParent ==
  [][(last'.handler = "create" /\ last'.versioned_object = None)
      => /\ last'.status = HTTP_405_METHOD_NOT_ALLOWED
         /\ versions' = versions]_vars

C2_Witness ==
  /\ last.handler = "create"
  /\ last.versioned_object = None
  /\ last.data.valid
  /\ last.status = HTTP_405_METHOD_NOT_ALLOWED

\* C3: in the "latest" mode, when no version of the queryset is released,
\* a request that reaches get_object (GET, update, DELETE) is answered 404;
\* no version is returned and none is modified.
C3_LatestNotFound ==
  [][(last'.is_latest /\ ReachedGetObject(last')
        /\ Released(ResourceVersionMixin_get_queryset(
                      versions, last'.versioned_object)) = {})
      => /\ last'.status = HTTP_404_NOT_FOUND
         /\ last'.obj = NoObject
         /\ versions' = versions]_vars

C3_Witness ==
  /\ last.view = VersionView
  /\ last.is_latest
  /\ last.handler = "update"
  /\ last.user = "editor"
  /\ last.status = HTTP_404_NOT_FOUND
  /\ ResourceVersionMixin_get_queryset(versions, last.versioned_object) # {}

\* C4: GET on a Source with includeConcepts=true returns only concepts that
\* are active, not retired and members of the latest version's concept set,
\* at most limit of them; a retired concept is returned only when the
\* request carries includeRetired=true.
C4_ConceptsFiltered ==
  (/\ last.view = SourceView
   /\ last.handler = "retrieve"
   /\ last.status = HTTP_200_OK
   /\ last.params.includeConcepts = "true")
  => LET latest == SourceVersion_get_latest_version_of(versions, last.source)
     IN /\ "concepts" \in last.keys
        /\ \A i \in 1..Len(last.concepts) :
             LET c == last.concepts[i]
             IN /\ ConceptVersion_is_active(c)
                /\ c \in SourceVersion_concepts(latest)
                /\ ConceptVersion_retired(c)
                     => last.params.includeRetired = "true"
        /\ last.params.limit.given
             => Len(last.concepts) <= last.params.limit.value

\* C5: "concepts" is a key of the response only if the request carries the
\* includeConcepts flag, "mappings" only if it carries includeMappings, each
\* independently of the other; a successful response has exactly the keys
\* of the flags the request carries.
C5_KeysFollowFlags ==
  (last.view = SourceView /\ last.handler = "retrieve")
  => /\ "concepts" \in last.keys => last.params.includeConcepts # None
     /\ "mappings" \in last.keys => last.params.includeMappings # None
     /\ last.status = HTTP_200_OK
          => /\ "concepts" \in last.keys <=> last.params.includeConcepts # None
             /\ "mappings" \in last.keys <=> last.params.includeMappings # None

C5_Witness ==
  /\ last.view = SourceView
  /\ last.handler = "retrieve"
  /\ last.status = HTTP_200_OK
  /\ last.params.includeConcepts = None
  /\ last.params.includeMappings # None
  /\ last.keys = {"source", "mappings"}
  /\ last.mappings # <<>>

C7_PermissionByMethod ==
  last.view \in {SourceView, VersionView}
  => /\ last.permission \in {CanView, CanEdit}
     /\ last.permission = CanView <=> last.method \in {"GET", "HEAD"}
     /\ last.method \in {"PUT", "PATCH", "DELETE"} => last.permission = CanEdit

C7_Witness ==
  /\ last.view = VersionView
  /\ last.method = "HEAD"
  /\ last.permission = CanView
  /\ last.status = HTTP_200_OK

\* The payload of a POST validates: the serializer accepts its fields and
\* the save finds the mnemonic free under the parent.
Validates(store, versioned_object, data) ==
  /\ data.valid
  /\ <<versioned_object, data.id>> \notin Keys(store)

\* C8: a POST to the version collection of a Source that resolves returns
\* 201 exactly when the payload validates, and then exactly one new version,
\* linked to that Source, has been persisted; otherwise it returns 400 and
\* nothing has been persisted.
C8_CreateOutcome ==
  [][(last'.handler = "create" /\ last'.versioned_object # None)
      => IF Validates(versions, last'.versioned_object, last'.data)
         THEN /\ last'.status = HTTP_201_CREATED
              /\ Keys(versions') \ Keys(versions)
                   = {<<last'.versioned_object, last'.data.id>>}
              /\ Cardinality(versions') = Cardinality(versions) + 1
              /\ last'.obj \in versions'
              /\ last'.obj.versioned_object = last'.versioned_object
              /\ last'.obj.mnemonic = last'.data.id
         ELSE /\ last'.status = HTTP_400_BAD_REQUEST
              /\ versions' = versions]_vars

C8_Witness ==
  /\ last.handler = "create"
  /\ last.status = HTTP_201_CREATED
  /\ last.obj \in versions
  /\ Cardinality(versions) > 1

\* The response of the list request recorded in r, had it carried the
\* verbose flag b.
ListResponse(r, b) ==
  IF r.view = "SourceListView" THEN SourceListView_get(sources, b)
  ELSE IF r.view = "SourceVersionListView"
       THEN SourceVersionListView_get(
              versions, SourceVersionListView_self(sources, r.source), b)
       ELSE SourceVersionChildListView_get(
              versions,
              ResourceAttributeChildMixin_resource_version(
                versions,
                ResourceVersionMixin_versioned_object(sources, r.source),
                r.version),
              b)

\* C9: on every list endpoint the request with the other value of the
\* verbose flag, against the same stored state, returns the same members;
\* only the serializer differs.
C9_VerboseKeepsMembers ==
  last.handler = "get"
  => /\ ListResponse(last, ~last.verbose).members = last.members
     /\ ListResponse(last, ~last.verbose).serializer # last.serializer
     /\ ListResponse(last, last.verbose).serializer = last.serializer

C9_Witness ==
  /\ last.handler = "get"
  /\ last.view = "SourceVersionListView"
  /\ last.verbose
  /\ last.members # {}
  /\ \E v \in versions : ~v.is_active

\* C10: in the "latest" mode, when the released version resolves and the
\* object-level permission check refuses the user, the request is answered
\* 403, no object is returned and the stored state is unchanged.
C10_LatestPermissionChecked ==
  [][(last'.is_latest /\ ReachedGetObject(last')
        /\ Cardinality(Released(ResourceVersionMixin_get_queryset(
                                  versions, last'.versioned_object))) = 1
        /\ ~has_object_permission(last'.permission, last'.user))
      => /\ last'.status = HTTP_403_FORBIDDEN
         /\ last'.obj = NoObject
         /\ versions' = versions
         /\ sources' = sources]_vars

C10_Witness ==
  /\ last.view = VersionView
  /\ last.is_latest
  /\ last.handler = "update"
  /\ last.data.valid
  /\ last.user = "viewer"
  /\ last.status = HTTP_403_FORBIDDEN
  /\ Released(ResourceVersionMixin_get_queryset(versions, last.versioned_object)) # {}

====
